---- MODULE Spec2Model ----
(***************************************************************************)
(* Project / task / file-attachment HTTP backend of LenanaTelvin/backend.  *)
(*                                                                         *)
(* Two server programs exist: variant "A" (the full server: projects,      *)
(* tasks, files, completion) and variant "B" (server.js: projects only,    *)
(* with a required status).  The variable `variant` is fixed at start-up.  *)
(*                                                                         *)
(* The store is PostgreSQL behind `pool.query`: one statement is one       *)
(* atomic step.  A handler with one statement is one action (statement and *)
(* response); the handlers with two steps (completion: two counts; upload: *)
(* multer's disk write, then the INSERT) are two actions with the request  *)
(* in flight between them.                                                 *)
(***************************************************************************)
EXTENDS Integers, Sequences, FiniteSets, Bags

\* ------------------------------------------------------------- bounds
\* Values the projects_id_seq sequence may hand out before the model stops.
MaxProjectSeq == 2
\* Values of tasks_id_seq.
MaxTaskSeq == 2
\* Values of files_id_seq.
MaxFileSeq == 2
\* Ticks of the store's clock (CURRENT_TIMESTAMP) and of the server's clock
\* (Date.now()).
MaxClock == 1
\* Two-step requests (completion, upload) in flight at once, per kind.
MaxInflight == 1
\* Tasks of the project in the initial states of SpecRound.
MaxRoundTasks == 40
\* Values of tasks_id_seq, and of files_id_seq, in SpecStore.
MaxStoreRows == 1

\* ----------------------------------------------- IEEE 754 binary64
\* Math.round((doneTasks / totalTasks) * 100) is computed on JavaScript
\* Numbers.  A positive double is [m, e]: m its 53 significand bits, most
\* significant first (m[1] = 1), and the value is m * 2^e.  Zero has m = <<>>.
MantissaBits == 53

RECURSIVE ToBits(_)
\* The binary digits of a natural number, most significant first (0: <<>>).
ToBits(n) == IF n = 0 THEN <<>> ELSE Append(ToBits(n \div 2), n % 2)

\* The w low binary digits of n, most significant first.
PadBits(n, w) == [i \in 1..w |-> (n \div (2 ^ (w - i))) % 2]

RECURSIVE BitsToNat(_)
BitsToNat(bits) ==
  IF bits = <<>> THEN 0
  ELSE 2 * BitsToNat(SubSeq(bits, 1, Len(bits) - 1)) + bits[Len(bits)]

\* bits + 1, same length; an all-ones input wraps to all zeros.
BitsInc(bits) ==
  LET zeros == {i \in 1..Len(bits) : bits[i] = 0}
      j == IF zeros = {} THEN 0
           ELSE CHOOSE i \in zeros : \A k \in zeros : k <= i
  IN [i \in 1..Len(bits) |-> IF i < j THEN bits[i] ELSE IF i = j THEN 1 ELSE 0]

\* Round-to-nearest, ties-to-even, of the significand `kept` (exponent e)
\* given whether the discarded part is above / exactly / below one half.
RoundNearestEven(kept, e, aboveHalf, exactlyHalf) ==
  LET up == aboveHalf \/ (exactlyHalf /\ kept[Len(kept)] = 1)
      inc == BitsInc(kept)
  IN IF ~up THEN [m |-> kept, e |-> e]
     ELSE IF inc[1] = 0
          THEN [m |-> <<1>> \o SubSeq(inc, 1, Len(inc) - 1), e |-> e + 1]
          ELSE [m |-> inc, e |-> e]

RECURSIVE LeadingZeros(_, _)
\* For 0 < r < b: the number of zero bits of r/b after the binary point and
\* before its first one bit.
LeadingZeros(r, b) == IF 2 * r >= b THEN 0 ELSE 1 + LeadingZeros(2 * r, b)

RECURSIVE DivBits(_, _, _)
\* Binary long division: the quotient bits of r/b after `acc`, until
\* MantissaBits bits are collected, up to 8 bits a step.  Returns the bits and
\* the last remainder.
DivBits(r, b, acc) ==
  IF Len(acc) >= MantissaBits THEN [bits |-> acc, rem |-> r]
  ELSE LET w == IF MantissaBits - Len(acc) < 8
                THEN MantissaBits - Len(acc) ELSE 8
           n == r * (2 ^ w)
       IN DivBits(n % b, b, acc \o PadBits(n \div b, w))

\* a / b on doubles, for integers a >= 0 and b > 0 that are exact doubles.
FDiv(a, b) ==
  IF a = 0 THEN [m |-> <<>>, e |-> 0]
  ELSE LET ip == ToBits(a \div b)
           z == IF ip = <<>> THEN LeadingZeros(a % b, b) ELSE 0
           d == DivBits((a % b) * (2 ^ z), b, ip)
           e == IF ip # <<>> THEN Len(ip) - MantissaBits
                ELSE 0 - (z + MantissaBits)
       IN RoundNearestEven(d.bits, e, 2 * d.rem > b, 2 * d.rem = b)

RECURSIVE MulBits(_, _, _)
\* bits * k + carry, by the schoolbook method from the least significant end,
\* up to 8 bits a step.
MulBits(bits, k, carry) ==
  IF bits = <<>> THEN ToBits(carry)
  ELSE LET w == IF Len(bits) < 8 THEN Len(bits) ELSE 8
           v == BitsToNat(SubSeq(bits, Len(bits) - w + 1, Len(bits))) * k + carry
       IN MulBits(SubSeq(bits, 1, Len(bits) - w), k, v \div (2 ^ w))
          \o PadBits(v % (2 ^ w), w)

\* Whether every bit of the sequence is 0.
AllZero(bits) == \A i \in 1..Len(bits) : bits[i] = 0

\* x * k on doubles, for a small positive integer k (an exact double).
FMul(x, k) ==
  IF x.m = <<>> THEN x
  ELSE LET p == MulBits(x.m, k, 0)
           drop == Len(p) - MantissaBits
       IN IF drop <= 0 THEN [m |-> p, e |-> x.e]
          ELSE LET kept == SubSeq(p, 1, MantissaBits)
                   first == p[MantissaBits + 1]
                   rest == SubSeq(p, MantissaBits + 2, Len(p))
               IN RoundNearestEven(kept, x.e + drop,
                                   first = 1 /\ ~AllZero(rest),
                                   first = 1 /\ AllZero(rest))

\* Math.round on a non-negative double below 2^31: floor(x + 1/2), exactly.
MathRound(x) ==
  IF x.m = <<>> THEN 0
  ELSE LET n == Len(x.m) + x.e   \* number of integer bits
       IN IF n < 0 THEN 0
          ELSE BitsToNat(SubSeq(x.m, 1, n))
               + (IF n < Len(x.m) THEN x.m[n + 1] ELSE 0)

\* percentage = totalTasks === 0 ? 0 : Math.round((doneTasks / totalTasks) * 100)
Percentage(doneTasks, totalTasks) ==
  IF totalTasks = 0 THEN 0
  ELSE MathRound(FMul(FDiv(doneTasks, totalTasks), 100))


\* --------------------------------------------------------------- state
VARIABLES
  variant,      \* "A": the full server; "B": server.js (projects only)
  projects,     \* rows of table projects
  project_seq,  \* last value of the SERIAL sequence of projects.id
  tasks,        \* rows of table tasks
  task_seq,     \* last value of the SERIAL sequence of tasks.id
  files,        \* rows of table files
  file_seq,     \* last value of the SERIAL sequence of files.id
  disk,         \* paths written under uploads/
  dbClock,      \* the store's CURRENT_TIMESTAMP
  jsClock,      \* the server's Date.now()
  completions,  \* completion requests between their two counts (a bag)
  uploads,      \* upload requests between the disk write and the INSERT (a bag)
  resp,         \* the response sent last
  issuedIds,    \* history: project ids returned by createProject so far
  flips         \* history: ids of the task rows toggled an odd number of times

vars == <<variant, projects, project_seq, tasks, task_seq, files, file_seq,
          disk, dbClock, jsClock, completions, uploads, resp, issuedIds, flips>>

\* ------------------------------------------------------- request values
\* A JSON body field: missing (undefined) or a string.
Undefined == [kind |-> "undefined", val |-> ""]
Str(s) == [kind |-> "string", val |-> s]
FieldInputs == {Undefined, Str(""), Str("x")}
\* The title of POST /projects/:id/tasks: missing or a string.
TitleInputs == {Undefined, Str("t")}
\* Original names of uploaded files.
OriginalNames == {"a.txt"}
\* The :id path parameter of the /projects/:id/... routes.
PathIds == 1..MaxProjectSeq
\* The :id path parameter of PUT /tasks/:id.
TaskPathIds == 1..MaxTaskSeq

\* Mutant of Falsy: only a missing field is refused, an empty one passes.
Falsy_UndefinedOnly(v) == v.kind = "undefined"

\* !name : undefined and the empty string are falsy.
Falsy(v) == v.kind = "undefined" \/ v.val = ""

\* A response: the route, the status, the body, the store error behind a 500
\* ("none" when there is none) and the number of statements the request sent
\* to the store.
Response(op, status, body, err, q) ==
  [op |-> op, status |-> status, body |-> body, err |-> err, q |-> q]

NoResponse == Response("none", 0, Undefined, "none", 0)

\* ---------------------------------------------------------- the store
Ids(rows) == {r.id : r \in rows}

\* SERIAL: the column default is nextval of the table's sequence.
NextVal(seq) == seq + 1

\* Mutant of NextProjectId: one more than the largest id in the table, which
\* hands an id out again once its row is deleted.
NextProjectId_Reuse ==
  1 + (IF projects = {} THEN 0
       ELSE CHOOSE i \in Ids(projects) : \A j \in Ids(projects) : j <= i)

\* The id the store gives a new project row.
NextProjectId == NextVal(project_seq)

\* Mutant of ForeignKeyOk: the reference is not checked.
ForeignKeyOk_Unchecked(project_id) == TRUE

\* REFERENCES projects(id): the referenced project row must exist.
ForeignKeyOk(project_id) == project_id \in Ids(projects)

\* Mutant of CascadeDelete: the deletion does not cascade.
CascadeDelete_None(rows, project_id) == rows

\* ON DELETE CASCADE: the rows that survive the deletion of a project.
CascadeDelete(rows, project_id) == {r \in rows : r.project_id # project_id}

\* Mutant of ToggleRows: done is set, not flipped.
ToggleRows_SetDone(rows, id) ==
  {IF r.id = id THEN [r EXCEPT !.done = TRUE] ELSE r : r \in rows}

\* UPDATE tasks SET done = NOT done WHERE id = $1
ToggleRows(rows, id) ==
  {IF r.id = id THEN [r EXCEPT !.done = ~r.done] ELSE r : r \in rows}

\* SELECT COUNT(*) FROM tasks WHERE project_id = $1
CountTotal(project_id) == Cardinality({t \in tasks : t.project_id = project_id})

\* SELECT COUNT(*) FROM tasks WHERE project_id = $1 AND done = true
CountDone(project_id) ==
  Cardinality({t \in tasks : t.project_id = project_id /\ t.done})

RECURSIVE CountText(_)
\* COUNT(*) is a bigint, which the driver hands over as its decimal digits.
CountText(n) ==
  IF n < 10 THEN <<n>> ELSE Append(CountText(n \div 10), n % 10)

RECURSIVE ParseInt(_)
\* parseInt on a string of decimal digits.
ParseInt(digits) ==
  IF digits = <<>> THEN 0
  ELSE 10 * ParseInt(SubSeq(digits, 1, Len(digits) - 1)) + digits[Len(digits)]

RECURSIVE Orderings(_)
\* ORDER BY created_at DESC: every listing of the rows with created_at never
\* increasing (the order of rows with equal created_at is the store's choice).
Orderings(rows) ==
  IF rows = {} THEN {<<>>}
  ELSE UNION {{<<r>> \o s : s \in Orderings(rows \ {r})} :
              r \in {a \in rows : \A b \in rows : a.created_at >= b.created_at}}

\* multer's diskStorage: destination 'uploads/', filename
\* Date.now() + '-' + file.originalname.  The digits of the time end at the
\* first '-', so the pair determines the string and the string the pair.
StoredPath(now, originalname) == <<"uploads/", now, "-", originalname>>

\* Mutant of DiskWrite: the write is lost.
DiskWrite_Dropped(paths, path) == paths

\* The file is on disk once written (an existing path is overwritten).
DiskWrite(paths, path) == paths \cup {path}

\* --------------------------------------------------------------- Init
Init ==
  /\ variant \in {"A", "B"}
  /\ projects = {} /\ project_seq = 0
  /\ tasks = {} /\ task_seq = 0
  /\ files = {} /\ file_seq = 0
  /\ disk = {}
  /\ dbClock = 0 /\ jsClock = 0
  /\ completions = EmptyBag /\ uploads = EmptyBag
  /\ resp = NoResponse
  /\ issuedIds = {} /\ flips = {}

\* ------------------------------------------------------------ projects
\* INSERT INTO projects ... RETURNING * : the row is stored and returned, or
\* the store rejects the statement (after drawing from the sequence or not).
InsertProject(op, row) ==
  /\ project_seq < MaxProjectSeq
  /\ \/ /\ projects' = projects \cup {row}
        /\ project_seq' = NextVal(project_seq)
        /\ issuedIds' = issuedIds \cup {row.id}
        /\ resp' = Response(op, 201, row, "none", 1)
     \/ /\ project_seq' \in {project_seq, NextVal(project_seq)}
        /\ resp' = Response(op, 500, "Server Error", "store_error", 1)
        /\ UNCHANGED <<projects, issuedIds>>

\* POST /projects of the full server.
CreateProject(name, description) ==
  /\ variant = "A"
  /\ IF Falsy(name) \/ Falsy(description)
     THEN /\ resp' = Response("POST /projects", 400,
                              [error |-> "Name and description are required"],
                              "none", 0)
          /\ UNCHANGED <<projects, project_seq, issuedIds>>
     ELSE InsertProject("POST /projects",
                        [id |-> NextProjectId, name |-> name.val,
                         description |-> description.val, status |-> "new",
                         created_at |-> dbClock])
  /\ UNCHANGED <<variant, tasks, task_seq, files, file_seq, disk, dbClock,
                 jsClock, completions, uploads, flips>>

\* POST /projects of server.js.
CreateProjectB(name, status) ==
  /\ variant = "B"
  /\ IF Falsy(name) \/ Falsy(status)
     THEN /\ resp' = Response("POST /projects", 400,
                              [error |-> "Name and status are required"],
                              "none", 0)
          /\ UNCHANGED <<projects, project_seq, issuedIds>>
     ELSE InsertProject("POST /projects",
                        [id |-> NextProjectId, name |-> name.val,
                         status |-> status.val, created_at |-> dbClock])
  /\ UNCHANGED <<variant, tasks, task_seq, files, file_seq, disk, dbClock,
                 jsClock, completions, uploads, flips>>

\* GET /projects (both servers).
ListProjects ==
  /\ \/ \E rows \in Orderings(projects) :
          resp' = Response("GET /projects", 200, rows, "none", 1)
     \/ resp' = Response("GET /projects", 500, "Server Error", "store_error", 1)
  /\ UNCHANGED <<variant, projects, project_seq, tasks, task_seq, files,
                 file_seq, disk, dbClock, jsClock, completions, uploads,
                 issuedIds, flips>>

\* A project row deleted in the store directly (no route does it): its task
\* and file rows go with it; files on disk stay.
DeleteProject(id) ==
  /\ id \in Ids(projects)
  /\ projects' = {p \in projects : p.id # id}
  /\ tasks' = CascadeDelete(tasks, id)
  /\ files' = CascadeDelete(files, id)
  /\ flips' = flips \cap Ids(tasks')
  /\ UNCHANGED <<variant, project_seq, task_seq, file_seq, disk, dbClock,
                 jsClock, completions, uploads, resp, issuedIds>>

\* The store's clock advances.
TickDb ==
  /\ dbClock < MaxClock
  /\ dbClock' = dbClock + 1
  /\ UNCHANGED <<variant, projects, project_seq, tasks, task_seq, files,
                 file_seq, disk, jsClock, completions, uploads, resp,
                 issuedIds, flips>>

\* --------------------------------------------------------------- tasks
\* POST /projects/:id/tasks.  The handler checks nothing; the store checks
\* title TEXT NOT NULL on the new row (its id already drawn from the
\* sequence) and then the reference to projects(id).
CreateTask(id, title) ==
  /\ variant = "A"
  /\ task_seq < MaxTaskSeq
  /\ \/ /\ title.kind = "undefined"
        /\ task_seq' = NextVal(task_seq)
        /\ resp' = Response("POST /projects/:id/tasks", 500,
                            "Error adding task", "not_null_violation", 1)
        /\ UNCHANGED tasks
     \/ /\ title.kind # "undefined"
        /\ ~ForeignKeyOk(id)
        /\ task_seq' = NextVal(task_seq)
        /\ resp' = Response("POST /projects/:id/tasks", 500,
                            "Error adding task", "foreign_key_violation", 1)
        /\ UNCHANGED tasks
     \/ /\ title.kind # "undefined"
        /\ ForeignKeyOk(id)
        /\ LET row == [id |-> NextVal(task_seq), title |-> title.val,
                       done |-> FALSE, project_id |-> id]
           IN /\ tasks' = tasks \cup {row}
              /\ task_seq' = NextVal(task_seq)
              /\ resp' = Response("POST /projects/:id/tasks", 201, row, "none", 1)
     \/ /\ resp' = Response("POST /projects/:id/tasks", 500,
                            "Error adding task", "store_error", 1)
        /\ UNCHANGED <<tasks, task_seq>>
  /\ UNCHANGED <<variant, projects, project_seq, files, file_seq, disk,
                 dbClock, jsClock, completions, uploads, issuedIds, flips>>

\* PUT /tasks/:id.  No row with that id: RETURNING yields no row and the
\* handler answers 200 with rows[0], which is undefined.
ToggleTask(id) ==
  /\ variant = "A"
  /\ \/ /\ id \in Ids(tasks)
        /\ tasks' = ToggleRows(tasks, id)
        /\ flips' = IF id \in flips THEN flips \ {id} ELSE flips \cup {id}
        /\ resp' = Response("PUT /tasks/:id", 200,
                            CHOOSE r \in tasks' : r.id = id, "none", 1)
     \/ /\ id \notin Ids(tasks)
        /\ resp' = Response("PUT /tasks/:id", 200, Undefined, "none", 1)
        /\ UNCHANGED <<tasks, flips>>
     \/ /\ resp' = Response("PUT /tasks/:id", 500, "Error toggling task",
                            "store_error", 1)
        /\ UNCHANGED <<tasks, flips>>
  /\ UNCHANGED <<variant, projects, project_seq, task_seq, files, file_seq,
                 disk, dbClock, jsClock, completions, uploads, issuedIds>>

\* GET /projects/:id/completion, first statement: the count of the
\* project's tasks.
CompletionCountTotal(id) ==
  /\ variant = "A"
  /\ BagCardinality(completions) < MaxInflight
  /\ \/ /\ completions' =
             completions (+) SetToBag({[id |-> id, total |-> CountText(CountTotal(id))]})
        /\ UNCHANGED resp
     \/ /\ resp' = Response("GET /projects/:id/completion", 500,
                            "Error calculating completion", "store_error", 1)
        /\ UNCHANGED completions
  /\ UNCHANGED <<variant, projects, project_seq, tasks, task_seq, files,
                 file_seq, disk, dbClock, jsClock, uploads, issuedIds, flips>>

\* GET /projects/:id/completion, second statement (the count of the done
\* tasks), the percentage and the response.
CompletionCountDone(c) ==
  /\ BagIn(c, completions)
  /\ completions' = completions (-) SetToBag({c})
  /\ \/ LET totalTasks == ParseInt(c.total)
            doneTasks == ParseInt(CountText(CountDone(c.id)))
        IN resp' = Response("GET /projects/:id/completion", 200,
                            [percentage |-> Percentage(doneTasks, totalTasks)],
                            "none", 2)
     \/ resp' = Response("GET /projects/:id/completion", 500,
                         "Error calculating completion", "store_error", 2)
  /\ UNCHANGED <<variant, projects, project_seq, tasks, task_seq, files,
                 file_seq, disk, dbClock, jsClock, uploads, issuedIds, flips>>

\* --------------------------------------------------------------- files
\* POST /projects/:id/upload without a part named file: req.file is undefined.
UploadNoFile ==
  /\ variant = "A"
  /\ resp' = Response("POST /projects/:id/upload", 400, "No file uploaded",
                      "none", 0)
  /\ UNCHANGED <<variant, projects, project_seq, tasks, task_seq, files,
                 file_seq, disk, dbClock, jsClock, completions, uploads,
                 issuedIds, flips>>

\* POST /projects/:id/upload, multer's part: the file is written to disk
\* under the name the storage's filename callback gives it, before the route's
\* handler runs.
UploadWrite(id, originalname) ==
  /\ variant = "A"
  /\ BagCardinality(uploads) < MaxInflight
  /\ file_seq + BagCardinality(uploads) < MaxFileSeq
  /\ LET path == StoredPath(jsClock, originalname)
     IN /\ disk' = DiskWrite(disk, path)
        /\ uploads' = uploads (+) SetToBag({[id |-> id,
                                             originalname |-> originalname,
                                             path |-> path]})
  /\ UNCHANGED <<variant, projects, project_seq, tasks, task_seq, files,
                 file_seq, dbClock, jsClock, completions, resp, issuedIds,
                 flips>>

\* POST /projects/:id/upload, the handler: the metadata row.  A failed INSERT
\* is answered 500 and nothing is undone.
UploadInsert(u) ==
  /\ BagIn(u, uploads)
  /\ uploads' = uploads (-) SetToBag({u})
  /\ \/ /\ ~ForeignKeyOk(u.id)
        /\ file_seq' = NextVal(file_seq)
        /\ resp' = Response("POST /projects/:id/upload", 500, "Upload error",
                            "foreign_key_violation", 1)
        /\ UNCHANGED files
     \/ /\ ForeignKeyOk(u.id)
        /\ files' = files \cup {[id |-> NextVal(file_seq),
                                 filename |-> u.originalname,
                                 filepath |-> u.path, project_id |-> u.id]}
        /\ file_seq' = NextVal(file_seq)
        /\ resp' = Response("POST /projects/:id/upload", 201, "File uploaded",
                            "none", 1)
     \/ /\ resp' = Response("POST /projects/:id/upload", 500, "Upload error",
                            "store_error", 1)
        /\ UNCHANGED <<files, file_seq>>
  /\ UNCHANGED <<variant, projects, project_seq, tasks, task_seq, disk,
                 dbClock, jsClock, completions, issuedIds, flips>>

\* The server's clock advances.
TickJs ==
  /\ jsClock < MaxClock
  /\ jsClock' = jsClock + 1
  /\ UNCHANGED <<variant, projects, project_seq, tasks, task_seq, files,
                 file_seq, disk, dbClock, completions, uploads, resp,
                 issuedIds, flips>>

\* ------------------------------------------------------ specifications
ProjectRequests ==
  \/ \E name \in FieldInputs, description \in FieldInputs :
       CreateProject(name, description)
  \/ \E name \in FieldInputs, status \in FieldInputs :
       CreateProjectB(name, status)
  \/ \E id \in PathIds : DeleteProject(id)

TaskRequests ==
  \/ \E id \in PathIds, title \in TitleInputs : CreateTask(id, title)
  \/ \E id \in TaskPathIds : ToggleTask(id)

CompletionRequests ==
  \/ \E id \in PathIds : CompletionCountTotal(id)
  \/ \E c \in BagToSet(completions) : CompletionCountDone(c)

UploadRequests ==
  \/ \E id \in PathIds, originalname \in OriginalNames :
       UploadWrite(id, originalname)
  \/ \E u \in BagToSet(uploads) : UploadInsert(u)

FileRequests == UploadNoFile \/ UploadRequests \/ TickJs

Next ==
  \/ ProjectRequests
  \/ ListProjects
  \/ TickDb
  \/ TaskRequests
  \/ CompletionRequests
  \/ FileRequests

\* Every route and the external deletion.
Spec == Init /\ [][Next]_vars

\* The project routes alone, on both servers.
NextProjects == ProjectRequests \/ ListProjects \/ TickDb
SpecProjects == Init /\ [][NextProjects]_vars

\* Projects and tasks.
NextTasks == ProjectRequests \/ TaskRequests
SpecTasks == Init /\ [][NextTasks]_vars

\* Projects, tasks and the completion percentage.
NextCompletion == ProjectRequests \/ TaskRequests \/ CompletionRequests
SpecCompletion == Init /\ [][NextCompletion]_vars

\* Projects and uploads.
NextFiles == ProjectRequests \/ FileRequests
SpecFiles == Init /\ [][NextFiles]_vars

\* Every write to the store (the routes that insert or update, and the
\* external deletion), tasks and files together, up to MaxStoreRows values
\* drawn from the sequence of each.
NextStore ==
  \/ ProjectRequests
  \/ \E id \in PathIds, title \in TitleInputs :
       CreateTask(id, title) /\ task_seq' <= MaxStoreRows
  \/ \E id \in TaskPathIds : ToggleTask(id)
  \/ \E id \in PathIds, originalname \in OriginalNames :
       /\ UploadWrite(id, originalname)
       /\ file_seq' + BagCardinality(uploads') <= MaxStoreRows
  \/ \E u \in BagToSet(uploads) : UploadInsert(u)
SpecStore == Init /\ [][NextStore]_vars

\* The completion route on a quiescent project of 0..MaxRoundTasks tasks, any
\* number of them done.
InitRound ==
  \E total \in 0..MaxRoundTasks : \E doneCount \in 0..total :
    /\ variant = "A"
    /\ projects = {[id |-> 1, name |-> "x", description |-> "x",
                    status |-> "new", created_at |-> 0]}
    /\ project_seq = 1
    /\ tasks = {[id |-> i, title |-> "x", done |-> (i <= doneCount),
                 project_id |-> 1] : i \in 1..total}
    /\ task_seq = total
    /\ files = {} /\ file_seq = 0
    /\ disk = {}
    /\ dbClock = 0 /\ jsClock = 0
    /\ completions = EmptyBag /\ uploads = EmptyBag
    /\ resp = NoResponse
    /\ issuedIds = {1} /\ flips = 1..doneCount

SpecRound == InitRound /\ [][CompletionRequests]_vars

\* ---------------------------------------------------------------- claims
CompletionRoute == "GET /projects/:id/completion"

\* C1: whatever createTask and toggleTask requests interleave with a
\* completion request, also between its two counts, the percentage returned
\* is an integer in 0..100.
C1_PercentageInRange ==
  (resp.op = CompletionRoute /\ resp.status = 200)
    => (resp.body.percentage \in Nat /\ resp.body.percentage <= 100)

\* 100 * a / b rounded to the nearest integer, halves up.
RoundHalfUp(a, b) == (200 * a + b) \div (2 * b)

\* C2: when no task of the project is created or toggled between the two
\* counts (in SpecRound the tasks never change), completion returns 0 for a
\* project without tasks and otherwise 100 * done / total rounded half up.
C2_CompletionValue ==
  [][\A c \in BagToSet(completions) :
       (CompletionCountDone(c) /\ resp'.status = 200)
         => resp'.body.percentage =
              (IF CountTotal(c.id) = 0 THEN 0
               ELSE RoundHalfUp(CountDone(c.id), CountTotal(c.id)))]_vars

\* C3: toggleTask is an involution.  A PUT /tasks/:id the store executes on
\* an existing task (it is answered 200; one the store fails is answered 500
\* and toggles nothing) flips done, returns the updated row, and changes no
\* other field and no other task; and, under every interleaving, a task's
\* done is its original value (false) exactly when an even number of toggles
\* of it have completed.
C3_ToggleInvolution ==
  [][/\ \A id \in TaskPathIds :
          (ToggleTask(id) /\ id \in Ids(tasks))
            => LET old == CHOOSE t \in tasks : t.id = id
               IN IF resp'.status = 200
                  THEN /\ resp'.body = [old EXCEPT !.done = ~old.done]
                       /\ tasks' = (tasks \ {old}) \cup {resp'.body}
                  ELSE tasks' = tasks
     /\ \A t \in tasks' : t.done = (t.id \in flips')]_vars

\* C3 witness: a toggle has returned a task to done = false (its second
\* toggle at least) while another task stays done.
C3_Witness ==
  /\ resp.op = "PUT /tasks/:id" /\ resp.status = 200
  /\ resp.body # Undefined
  /\ resp.body.done = FALSE
  /\ resp.body \in tasks
  /\ \E t \in tasks : t.id # resp.body.id /\ t.done

\* C4: the row createProject returns has a positive integer id above every
\* id an earlier createProject returned (also after failed inserts and
\* external deletions), and, on the full server, status "new".
C4_FreshProjectId ==
  [][\A a \in FieldInputs, b \in FieldInputs :
       ((CreateProject(a, b) \/ CreateProjectB(a, b)) /\ resp'.status = 201)
         => /\ resp'.body.id \in Nat /\ resp'.body.id > 0
            /\ \A i \in issuedIds : resp'.body.id > i
            /\ variant = "A" => resp'.body.status = "new"]_vars

\* C4 witness: a project was created after the row with id 1 was issued and
\* then deleted.
C4_Witness ==
  /\ resp.op = "POST /projects" /\ resp.status = 201
  /\ resp.body.id > 1
  /\ 1 \in issuedIds /\ 1 \notin Ids(projects)
  /\ resp.body \in projects

\* C5: GET /projects returns all project rows with created_at never
\* increasing, and a project created later (createProject is one step here, so
\* later means a larger id) comes before every project created earlier.
C5_NewestFirst ==
  [][(ListProjects /\ resp'.status = 200)
       => LET rows == resp'.body
          IN /\ {rows[i] : i \in 1..Len(rows)} = projects
             /\ Len(rows) = Cardinality(projects)
             /\ \A i \in 1..Len(rows), j \in 1..Len(rows) :
                  i < j => /\ rows[i].created_at >= rows[j].created_at
                           /\ rows[i].id > rows[j].id]_vars

\* C6 as claimed: createTask under an id that is no project's fails with a
\* referential-integrity error, is answered 500 and inserts nothing; under an
\* existing project it inserts exactly one task with done = false and is
\* answered 201.
C6_Original ==
  [][\A id \in PathIds, title \in TitleInputs :
       CreateTask(id, title)
         => IF id \notin Ids(projects)
            THEN /\ resp'.status = 500
                 /\ resp'.err = "foreign_key_violation"
                 /\ tasks' = tasks
            ELSE /\ resp'.status = 201
                 /\ \E row \in tasks' \ tasks :
                      /\ tasks' = tasks \cup {row}
                      /\ row.done = FALSE]_vars

\* C6 amended: createTask under an id that is no project's is answered 500
\* and inserts nothing, and the store's error is the referential-integrity
\* one when the title is present and the store executes the statement;
\* without a title the request is answered 500 and inserts nothing whatever
\* the project (the NOT NULL check on title fails first); under an existing
\* project and with a title it inserts exactly one task with done = false
\* under that project and is answered 201, unless the store fails to execute
\* the statement (500, nothing inserted).
C6_CreateTask ==
  [][\A id \in PathIds, title \in TitleInputs :
       CreateTask(id, title)
         => /\ (id \notin Ids(projects) \/ title = Undefined)
                 => /\ resp'.status = 500
                    /\ tasks' = tasks
            /\ (id \notin Ids(projects) /\ title # Undefined
                  /\ resp'.err # "store_error")
                 => resp'.err = "foreign_key_violation"
            /\ (title = Undefined /\ resp'.err # "store_error")
                 => resp'.err = "not_null_violation"
            /\ (id \in Ids(projects) /\ title # Undefined)
                 => \/ /\ resp'.status = 201
                       /\ resp'.body \notin tasks
                       /\ tasks' = tasks \cup {resp'.body}
                       /\ resp'.body.done = FALSE
                       /\ resp'.body.project_id = id
                    \/ /\ resp'.status = 500
                       /\ resp'.err = "store_error"
                       /\ tasks' = tasks]_vars

\* C6 witness: a createTask without a title under an existing project was
\* answered 500 on the NOT NULL check, and no task row exists.
C6_Witness ==
  /\ resp.op = "POST /projects/:id/tasks" /\ resp.status = 500
  /\ resp.err = "not_null_violation"
  /\ projects # {} /\ tasks = {} /\ task_seq > 0

\* C7: two uploads of files with the same original name to the same project
\* leave two metadata rows with two distinct stored paths.
C7_DistinctPaths ==
  \A f \in files, g \in files :
    (f.id # g.id /\ f.filename = g.filename /\ f.project_id = g.project_id)
      => f.filepath # g.filepath

\* C8: every task row and every file row references a project row that
\* exists, and deleting a project removes exactly the task and file rows of
\* that project.
C8_ReferentialIntegrity ==
  [][/\ \A id \in PathIds :
          DeleteProject(id)
            => /\ tasks' = {t \in tasks : t.project_id # id}
               /\ files' = {f \in files : f.project_id # id}
               /\ projects' = {p \in projects : p.id # id}
     /\ \A t \in tasks' : t.project_id \in Ids(projects')
     /\ \A f \in files' : f.project_id \in Ids(projects')]_vars

\* C8 witness: the project of the task created last has been deleted and its
\* task row with it, while a file row of another project is still there.
C8_Witness ==
  /\ resp.op = "POST /projects/:id/tasks" /\ resp.status = 201
  /\ resp.body.project_id \notin Ids(projects)
  /\ resp.body \notin tasks
  /\ \E f \in files : f.project_id \in Ids(projects)

\* A required field that is missing or empty.
MissingOrEmpty(v) == v = Undefined \/ v = Str("")

\* C9 as claimed: createProject with a required field missing or empty is
\* answered 400, sends nothing to the store and leaves the projects table as
\* it is; with the required fields present it inserts exactly one row and is
\* answered 201 with that row.
C9_Original ==
  [][\A a \in FieldInputs, b \in FieldInputs :
       (CreateProject(a, b) \/ CreateProjectB(a, b))
         => IF MissingOrEmpty(a) \/ MissingOrEmpty(b)
            THEN /\ resp'.status = 400 /\ resp'.q = 0
                 /\ projects' = projects /\ project_seq' = project_seq
            ELSE /\ resp'.status = 201
                 /\ resp'.body \notin projects
                 /\ projects' = projects \cup {resp'.body}]_vars

\* C9 amended: as claimed, except that with the required fields present the
\* one INSERT may fail in the store, and the request is then answered 500
\* and the projects table is left as it is.
C9_CreateProject ==
  [][\A a \in FieldInputs, b \in FieldInputs :
       (CreateProject(a, b) \/ CreateProjectB(a, b))
         => IF MissingOrEmpty(a) \/ MissingOrEmpty(b)
            THEN /\ resp'.status = 400 /\ resp'.q = 0
                 /\ projects' = projects /\ project_seq' = project_seq
            ELSE /\ resp'.q = 1
                 /\ \/ /\ resp'.status = 201
                       /\ resp'.body \notin projects
                       /\ projects' = projects \cup {resp'.body}
                    \/ /\ resp'.status = 500
                       /\ projects' = projects]_vars

\* C9 witness: a createProject was refused with 400 without a statement
\* sent, the table holding the rows of earlier requests.
C9_Witness ==
  /\ resp.op = "POST /projects" /\ resp.status = 400 /\ resp.q = 0
  /\ projects # {} /\ project_seq = Cardinality(projects)

\* C10: the metadata INSERT of an upload is sent once the file is on disk; a
\* failed INSERT (a project that does not exist, for one) is answered 500,
\* adds no metadata row and leaves the file on disk; so every metadata row's
\* file is on disk, a file without a row being the only orphan.
C10_WriteBeforeInsert ==
  [][/\ \A u \in BagToSet(uploads) :
          UploadInsert(u)
            => /\ u.path \in disk
               /\ disk' = disk
               /\ u.id \notin Ids(projects) => resp'.status = 500
               /\ resp'.status # 201
                    => /\ resp'.status = 500
                       /\ files' = files
     /\ \A f \in files' : f.filepath \in disk']_vars

\* C10 witness: an upload to a project that does not exist was answered 500;
\* its file is on disk and no metadata row names it.
C10_Witness ==
  /\ resp.op = "POST /projects/:id/upload" /\ resp.status = 500
  /\ resp.err = "foreign_key_violation"
  /\ disk # {}
  /\ \A p \in disk : \A f \in files : f.filepath # p
====
